---- MODULE Spec2Model ----
(***************************************************************************)
(* Model of osi/src/thread.c: one worker thread that owns a reactor and a *)
(* bounded work queue, created by thread_new, fed by thread_post,         *)
(* thread_register and thread_unregister from caller threads, and torn    *)
(* down by thread_stop / thread_free.                                     *)
(*                                                                         *)
(* reactor.c, fixed_queue.c and semaphore.c are modelled at their         *)
(* interface: the reactor is a set of registered sources plus a sticky    *)
(* stop request, the queue a bounded FIFO whose enqueue blocks when full, *)
(* a semaphore a counter.                                                 *)
(***************************************************************************)
EXTENDS Integers, Sequences, FiniteSets, TLC

\* Bound on the length of the work queue.
QueueBound == 1

\* Capacity of the work queue: 128 in thread.c, scaled down to QueueBound so that
\* the full queue and the limit of the drain are reached.
WORK_QUEUE_CAPACITY == QueueBound

\* Number of API calls (post, register, unregister, stop) made on the handle.
MaxCalls == 3

\* Number of those calls that post a function which posts to its own worker.
MaxPosters == 1

Callers == {"main", "aux"}
Worker == "worker"
Threads == Callers \cup {Worker}
Sources == {"s1"}
WQ == "wq"

NoItem == [id |-> 0, kind |-> "none", src |-> "none", by |-> "none", after |-> {}]

VARIABLES
  pc,          \* thread -> position in the API function it executes
  op,          \* thread -> API function whose thread_post is in progress
  item,        \* thread -> work item allocated by its thread_post in progress
  nCalls,      \* number of API calls started on the handle
  nPosters,    \* number of posts of a function that posts to its own worker
  newResult,   \* outcome of thread_new: "pending", "ok" or "fail"
  alloc,       \* resources of thread_new that are allocated and not released
  startSem,    \* count of start.start_sem
  startError,  \* start.error
  tid,         \* thread->tid (0 until the worker stores it)
  wPc,         \* position of the worker in run_thread
  queue,       \* thread->work_queue, a FIFO of work items
  registered,  \* sources in the reactor's table
  stopReq,     \* pending stop request of the reactor
  ready,       \* sources that are readable
  count,       \* run_thread's drain counter
  cur,         \* item (or source) whose callback the worker holds
  active,      \* callbacks in execution: <<thread, kind, id or source>>
  unregSem,    \* caller -> count of its arg.unregistered_sem, -1 when absent
  arg,         \* caller -> reactor_unregister_arg_t of its unregister call in progress
  nextId,      \* number of work items allocated so far
  enqLog,      \* ids of the items in the order they were enqueued
  execLog,     \* <<id, thread>> of the work items in the order they were executed
  freed,       \* ids of the work items released, as a sequence
  postRet,     \* caller -> last result of a plain thread_post
  noSem,       \* caller -> number of its last unregister call that got no semaphore
  regCalled,   \* caller -> sources it has called thread_register for
  unregRet,    \* ids of the unregistration items whose thread_unregister returned
  regEffected, \* sources for which reactor_register ran on the worker
  detached,    \* sources whose unregister call has returned, not registered again since
  reReg,       \* caller -> a register of its source was enqueued after its unregister
  stopEver,    \* thread_stop has been called by a caller
  freeCalls    \* at the call of thread_free: the ids queued and the value of stopEver

vars == <<pc, op, item, nCalls, nPosters, newResult, alloc, startSem, startError, tid, wPc,
          queue, registered, stopReq, ready, count, cur, active, unregSem, arg,
          nextId, enqLog, execLog, freed, postRet, noSem, regCalled, unregRet,
          regEffected, detached, reReg, stopEver, freeCalls>>

callerVars == <<pc, op, item, nCalls, nPosters>>
newVars == <<newResult, alloc, startSem, startError>>
workerVars == <<tid, wPc, count, cur, active>>
reactorVars == <<registered, stopReq>>
histVars == <<nextId, enqLog, execLog, freed, postRet, noSem, regCalled, unregRet,
              regEffected, detached, reReg, stopEver, freeCalls>>

Init ==
  /\ pc = [c \in Threads |-> IF c = "main" THEN "new_calloc" ELSE "idle"]
  /\ op = [c \in Threads |-> "none"]
  /\ item = [c \in Threads |-> NoItem]
  /\ nCalls = 0
  /\ nPosters = 0
  /\ newResult = "pending"
  /\ alloc = {}
  /\ startSem = 0
  /\ startError = 0
  /\ tid = 0
  /\ wPc = "none"
  /\ queue = <<>>
  /\ registered = {}
  /\ stopReq = FALSE
  /\ ready = {}
  /\ count = 0
  /\ cur = NoItem
  /\ active = {}
  /\ unregSem = [c \in Callers |-> -1]
  /\ arg = [c \in Callers |-> [src |-> "none", id |-> 0]]
  /\ nextId = 0
  /\ enqLog = <<>>
  /\ execLog = <<>>
  /\ freed = <<>>
  /\ postRet = [c \in Callers |-> [n |-> 0, ret |-> FALSE, mallocOk |-> FALSE, id |-> 0]]
  /\ noSem = [c \in Callers |-> 0]
  /\ regCalled = [c \in Callers |-> {}]
  /\ unregRet = {}
  /\ regEffected = {}
  /\ detached = {}
  /\ reReg = [c \in Callers |-> FALSE]
  /\ stopEver = FALSE
  /\ freeCalls = <<>>

----------------------------------------------------------------------------
\* thread_new, executed by "main"

\* calloc of the control block (thread.c:74-76)
New_Calloc ==
  /\ pc["main"] = "new_calloc"
  /\ \E ok \in BOOLEAN :
       IF ok
       THEN /\ alloc' = alloc \cup {"thread"}
            /\ pc' = [pc EXCEPT !["main"] = "new_reactor"]
       ELSE /\ alloc' = alloc
            /\ pc' = [pc EXCEPT !["main"] = "new_error"]
  /\ UNCHANGED <<op, item, nCalls, nPosters, newResult, startSem, startError, workerVars,
                 queue, reactorVars, ready, unregSem, arg, histVars>>

\* reactor_new (thread.c:78-80)
New_Reactor ==
  /\ pc["main"] = "new_reactor"
  /\ \E ok \in BOOLEAN :
       IF ok
       THEN /\ alloc' = alloc \cup {"reactor"}
            /\ pc' = [pc EXCEPT !["main"] = "new_queue"]
       ELSE /\ alloc' = alloc
            /\ pc' = [pc EXCEPT !["main"] = "new_error"]
  /\ UNCHANGED <<op, item, nCalls, nPosters, newResult, startSem, startError, workerVars,
                 queue, reactorVars, ready, unregSem, arg, histVars>>

\* fixed_queue_new (thread.c:82-84)
New_Queue ==
  /\ pc["main"] = "new_queue"
  /\ \E ok \in BOOLEAN :
       IF ok
       THEN /\ alloc' = alloc \cup {"queue"}
            /\ pc' = [pc EXCEPT !["main"] = "new_sem"]
       ELSE /\ alloc' = alloc
            /\ pc' = [pc EXCEPT !["main"] = "new_error"]
  /\ UNCHANGED <<op, item, nCalls, nPosters, newResult, startSem, startError, workerVars,
                 queue, reactorVars, ready, unregSem, arg, histVars>>

\* semaphore_new(0) for the start handshake (thread.c:87-90)
New_Sem ==
  /\ pc["main"] = "new_sem"
  /\ \E ok \in BOOLEAN :
       IF ok
       THEN /\ alloc' = alloc \cup {"start_sem"}
            /\ startSem' = 0
            /\ pc' = [pc EXCEPT !["main"] = "new_create"]
       ELSE /\ alloc' = alloc
            /\ startSem' = startSem
            /\ pc' = [pc EXCEPT !["main"] = "new_error"]
  /\ UNCHANGED <<op, item, nCalls, nPosters, newResult, startError, workerVars,
                 queue, reactorVars, ready, unregSem, arg, histVars>>

\* start.error = 0; pthread_create, whose result is not looked at (thread.c:92-95)
New_Create ==
  /\ pc["main"] = "new_create"
  /\ startError' = 0
  /\ \E created \in BOOLEAN : wPc' = IF created THEN "init" ELSE "none"
  /\ pc' = [pc EXCEPT !["main"] = "new_wait"]
  /\ UNCHANGED <<op, item, nCalls, nPosters, newResult, alloc, startSem, tid, count, cur, active,
                 queue, reactorVars, ready, unregSem, arg, histVars>>

\* Variant of thread_new that does not wait for the start semaphore
New_Wait_NoWait ==
  /\ pc["main"] = "new_wait"
  /\ startSem' = startSem
  /\ alloc' = alloc \ {"start_sem"}
  /\ IF startError # 0
     THEN /\ pc' = [pc EXCEPT !["main"] = "new_error"]
          /\ newResult' = newResult
     ELSE /\ pc' = [pc EXCEPT !["main"] = "idle"]
          /\ newResult' = "ok"
  /\ UNCHANGED <<op, item, nCalls, nPosters, startError, workerVars,
                 queue, reactorVars, ready, unregSem, arg, histVars>>

\* semaphore_wait(start_sem); semaphore_free; if (start.error) goto error; return ret
\* (thread.c:96-102)
New_Wait ==
  /\ pc["main"] = "new_wait"
  /\ startSem > 0
  /\ startSem' = startSem - 1
  /\ alloc' = alloc \ {"start_sem"}
  /\ IF startError # 0
     THEN /\ pc' = [pc EXCEPT !["main"] = "new_error"]
          /\ newResult' = newResult
     ELSE /\ pc' = [pc EXCEPT !["main"] = "idle"]
          /\ newResult' = "ok"
  /\ UNCHANGED <<op, item, nCalls, nPosters, startError, workerVars,
                 queue, reactorVars, ready, unregSem, arg, histVars>>

\* error: fixed_queue_free, reactor_free, free(ret), return NULL (thread.c:104-110)
New_Error ==
  /\ pc["main"] = "new_error"
  /\ alloc' = alloc \ {"queue", "reactor", "thread"}
  /\ newResult' = "fail"
  /\ pc' = [pc EXCEPT !["main"] = "returned_null"]
  /\ UNCHANGED <<op, item, nCalls, nPosters, startSem, startError, workerVars,
                 queue, reactorVars, ready, unregSem, arg, histVars>>

----------------------------------------------------------------------------
\* run_thread: self-initialization (thread.c:191-207)

\* Variant of run_thread that does not record the error when prctl fails
Worker_Init_NoError ==
  /\ wPc = "init"
  /\ \E named \in BOOLEAN :
       IF named
       THEN /\ tid' = 1
            /\ wPc' = "signal_start"
            /\ UNCHANGED <<startError, startSem>>
       ELSE /\ startError' = startError
            /\ startSem' = startSem + 1
            /\ wPc' = "failed"
            /\ tid' = tid
  /\ UNCHANGED <<callerVars, newResult, alloc, count, cur, active,
                 queue, reactorVars, ready, unregSem, arg, histVars>>

\* prctl(PR_SET_NAME); on failure start->error = errno, semaphore_post, return;
\* on success thread->tid = gettid()
Worker_Init ==
  /\ wPc = "init"
  /\ \E named \in BOOLEAN :
       IF named
       THEN /\ tid' = 1
            /\ wPc' = "signal_start"
            /\ UNCHANGED <<startError, startSem>>
       ELSE /\ startError' = 1
            /\ startSem' = startSem + 1
            /\ wPc' = "failed"
            /\ tid' = tid
  /\ UNCHANGED <<callerVars, newResult, alloc, count, cur, active,
                 queue, reactorVars, ready, unregSem, arg, histVars>>

\* semaphore_post(start->start_sem) (thread.c:207)
Worker_SignalStart ==
  /\ wPc = "signal_start"
  /\ startSem' = startSem + 1
  /\ wPc' = "register_wq"
  /\ UNCHANGED <<callerVars, newResult, alloc, startError, tid, count, cur, active,
                 queue, reactorVars, ready, unregSem, arg, histVars>>

----------------------------------------------------------------------------
\* The functions a work item wraps

\* register_with_reactor_cb (thread.c:245-255): reactor_register, free(arg)
register_with_reactor_cb(it) ==
  /\ registered' = registered \cup {it.src}
  /\ regEffected' = regEffected \cup {it.src}
  /\ unregSem' = unregSem

\* Variant of unregister_with_reactor_cb that signals the caller without
\* calling reactor_unregister
unregister_with_reactor_cb_PostOnly(it) ==
  /\ registered' = registered
  /\ unregSem' = [unregSem EXCEPT ![it.by] = @ + 1]
  /\ regEffected' = regEffected

\* unregister_with_reactor_cb (thread.c:257-267): reactor_unregister, semaphore_post
unregister_with_reactor_cb(it) ==
  /\ registered' = registered \ {it.src}
  /\ unregSem' = [unregSem EXCEPT ![it.by] = @ + 1]
  /\ regEffected' = regEffected

\* item->func(item->context), for the three kinds of item the callers post
ItemFunc(it) ==
  CASE it.kind = "reg" -> register_with_reactor_cb(it)
    [] it.kind = "unreg" -> unregister_with_reactor_cb(it)
    [] OTHER -> UNCHANGED <<registered, regEffected, unregSem>>

\* Thread t enters the function of work item it
BeginItem(t, it) ==
  /\ active' = active \cup {<<t, "item", it.id>>}
  /\ execLog' = Append(execLog, <<it.id, t>>)

\* The function of work item it returns on thread t; free(item)
EndItem(t, it) ==
  /\ ItemFunc(it)
  /\ active' = active \ {<<t, "item", it.id>>}
  /\ freed' = Append(freed, <<it.id, t>>)

----------------------------------------------------------------------------
\* run_thread: reactor phase (thread.c:209-216)

\* reactor_register(thread->reactor, &work_queue_object); reactor_start is entered
Worker_RegisterWQ ==
  /\ wPc = "register_wq"
  /\ registered' = registered \cup {WQ}
  /\ wPc' = "reactor"
  /\ UNCHANGED <<callerVars, newVars, tid, count, cur, active, queue, stopReq, ready,
                 unregSem, arg, histVars>>

\* Variant of work_queue_read_cb that reads the head of the queue without
\* removing it
work_queue_read_cb_Peek ==
  /\ wPc = "reactor"
  /\ ~stopReq
  /\ WQ \in registered
  /\ Len(queue) > 0
  /\ cur' = Head(queue)
  /\ queue' = queue
  /\ BeginItem(Worker, Head(queue))
  /\ wPc' = "read_cb"
  /\ UNCHANGED <<callerVars, newVars, tid, count, reactorVars, ready, unregSem, arg,
                 nextId, enqLog, freed, postRet, noSem, regCalled, unregRet,
                 regEffected, detached, reReg, stopEver, freeCalls>>

\* The reactor finds the work queue readable and calls work_queue_read_cb, which
\* dequeues one item and calls its function (thread.c:236-241)
work_queue_read_cb ==
  /\ wPc = "reactor"
  /\ ~stopReq
  /\ WQ \in registered
  /\ Len(queue) > 0
  /\ cur' = Head(queue)
  /\ queue' = Tail(queue)
  /\ BeginItem(Worker, Head(queue))
  /\ wPc' = "read_cb"
  /\ UNCHANGED <<callerVars, newVars, tid, count, reactorVars, ready, unregSem, arg,
                 nextId, enqLog, freed, postRet, noSem, regCalled, unregRet,
                 regEffected, detached, reReg, stopEver, freeCalls>>

\* The item's function returns (after the thread_post it makes, if it makes one)
\* to work_queue_read_cb, which frees the item and returns to the reactor
\* (thread.c:241-243)
work_queue_read_cb_return ==
  /\ wPc = "read_cb"
  /\ cur.kind # "poster"
  /\ pc[Worker] = "idle"
  /\ EndItem(Worker, cur)
  /\ cur' = NoItem
  /\ wPc' = "reactor"
  /\ UNCHANGED <<callerVars, newVars, tid, count, queue, stopReq, ready, arg,
                 nextId, enqLog, execLog, postRet, noSem, regCalled, unregRet,
                 detached, reReg, stopEver, freeCalls>>

\* The reactor finds a registered source readable and calls its read_ready
Reactor_DispatchSource(s) ==
  /\ wPc = "reactor"
  /\ ~stopReq
  /\ s \in registered
  /\ s \in ready
  /\ cur' = [NoItem EXCEPT !.kind = "src", !.src = s]
  /\ active' = active \cup {<<Worker, "src", s>>}
  /\ wPc' = "src_cb"
  /\ UNCHANGED <<callerVars, newVars, tid, count, queue, reactorVars, ready, unregSem,
                 arg, histVars>>

\* read_ready of a source consumes the readiness and returns to the reactor
Reactor_SourceReturn ==
  /\ wPc = "src_cb"
  /\ ready' = ready \ {cur.src}
  /\ active' = active \ {<<Worker, "src", cur.src>>}
  /\ cur' = NoItem
  /\ wPc' = "reactor"
  /\ UNCHANGED <<callerVars, newVars, tid, count, queue, reactorVars, unregSem,
                 arg, histVars>>

\* A request made by reactor_stop is pending: the reactor keeps it until
\* reactor_start acts on it, also when it was made before reactor_start was called
StopPending == stopReq

\* reactor_start returns on the stop request; size_t count = 0 (thread.c:216-221)
Reactor_Stop ==
  /\ wPc = "reactor"
  /\ StopPending
  /\ stopReq' = FALSE
  /\ count' = 0
  /\ wPc' = "drain"
  /\ UNCHANGED <<callerVars, newVars, tid, cur, active, queue, registered, ready,
                 unregSem, arg, histVars>>

----------------------------------------------------------------------------
\* run_thread: drain on shutdown (thread.c:221-233)

\* Variant of the drain that goes back into the reactor loop when it finds the
\* queue empty
Drain_Dequeue_Restart ==
  /\ wPc = "drain"
  /\ LET it == IF Len(queue) > 0 THEN Head(queue) ELSE NoItem IN
       /\ cur' = it
       /\ queue' = IF Len(queue) > 0 THEN Tail(queue) ELSE queue
       /\ IF it # NoItem /\ count <= WORK_QUEUE_CAPACITY
          THEN /\ BeginItem(Worker, it)
               /\ wPc' = "drain_run"
          ELSE /\ UNCHANGED <<active, execLog>>
               /\ wPc' = IF it = NoItem THEN "reactor" ELSE "done"
  /\ UNCHANGED <<callerVars, newVars, tid, count, reactorVars, ready, unregSem, arg,
                 nextId, enqLog, freed, postRet, noSem, regCalled, unregRet,
                 regEffected, detached, reReg, stopEver, freeCalls>>

\* Variant of the drain that does not count the items it executes
Drain_Dequeue_Unbounded ==
  /\ wPc = "drain"
  /\ LET it == IF Len(queue) > 0 THEN Head(queue) ELSE NoItem IN
       /\ cur' = it
       /\ queue' = IF Len(queue) > 0 THEN Tail(queue) ELSE queue
       /\ IF it # NoItem
          THEN /\ BeginItem(Worker, it)
               /\ wPc' = "drain_run"
          ELSE /\ UNCHANGED <<active, execLog>>
               /\ wPc' = "done"
  /\ UNCHANGED <<callerVars, newVars, tid, count, reactorVars, ready, unregSem, arg,
                 nextId, enqLog, freed, postRet, noSem, regCalled, unregRet,
                 regEffected, detached, reReg, stopEver, freeCalls>>

\* Variant of run_thread that returns after reactor_start without the drain loop
Drain_Dequeue_NoDrain ==
  /\ wPc = "drain"
  /\ wPc' = "done"
  /\ UNCHANGED <<callerVars, newVars, tid, count, cur, active, queue, reactorVars,
                 ready, unregSem, arg, histVars>>

\* item = fixed_queue_try_dequeue; while (item && count <= WORK_QUEUE_CAPACITY)
\* item->func(item->context); otherwise the thread returns
Drain_Dequeue ==
  /\ wPc = "drain"
  /\ LET it == IF Len(queue) > 0 THEN Head(queue) ELSE NoItem IN
       /\ cur' = it
       /\ queue' = IF Len(queue) > 0 THEN Tail(queue) ELSE queue
       /\ IF it # NoItem /\ count <= WORK_QUEUE_CAPACITY
          THEN /\ BeginItem(Worker, it)
               /\ wPc' = "drain_run"
          ELSE /\ UNCHANGED <<active, execLog>>
               /\ wPc' = "done"
  /\ UNCHANGED <<callerVars, newVars, tid, count, reactorVars, ready, unregSem, arg,
                 nextId, enqLog, freed, postRet, noSem, regCalled, unregRet,
                 regEffected, detached, reReg, stopEver, freeCalls>>

\* The item's function returns (after the thread_post it makes, if it makes one);
\* free(item); ++count (thread.c:224-227)
Drain_Return ==
  /\ wPc = "drain_run"
  /\ cur.kind # "poster"
  /\ pc[Worker] = "idle"
  /\ EndItem(Worker, cur)
  /\ cur' = NoItem
  /\ count' = count + 1
  /\ wPc' = "drain"
  /\ UNCHANGED <<callerVars, newVars, tid, queue, stopReq, ready, arg,
                 nextId, enqLog, execLog, postRet, noSem, regCalled, unregRet,
                 detached, reReg, stopEver, freeCalls>>

\* A source becomes readable, while the process runs
MakeReady(s) ==
  /\ newResult = "ok"
  /\ wPc # "crashed"
  /\ s \notin ready
  /\ ready' = ready \cup {s}
  /\ UNCHANGED <<callerVars, newVars, workerVars, queue, reactorVars, unregSem, arg,
                 histVars>>

----------------------------------------------------------------------------
\* The API, called by the caller threads on the handle thread_new returned

\* The handle is valid: thread_new returned it and thread_free was not called
Valid == newResult = "ok" /\ pc["main"] \notin {"free_join", "free_release", "freed"}

CanCall(c) == Valid /\ pc[c] = "idle" /\ nCalls < MaxCalls

PlainItem(c) ==
  [id |-> nextId + 1, kind |-> "plain", src |-> "none", by |-> c, after |-> regCalled[c]]
RegItem(c, s) ==
  [id |-> nextId + 1, kind |-> "reg", src |-> s, by |-> c, after |-> {}]
UnregItem(c, s) ==
  [id |-> nextId + 1, kind |-> "unreg", src |-> s, by |-> c, after |-> {}]

\* The item posted by the function of a "poster" item
ChildItem ==
  [id |-> nextId + 1, kind |-> "plain", src |-> "none", by |-> Worker, after |-> {}]

\* Where the caller continues when the thread_post made by API function o returns
AfterPost(o) == IF o = "unregister" THEN "unreg_wait" ELSE "idle"

\* Variant of thread_post that does not check the result of malloc and returns
\* true without an item
thread_post_NoCheck(c, o, it, ok) ==
  IF ok
  THEN /\ item' = [item EXCEPT ![c] = it]
       /\ nextId' = nextId + 1
       /\ op' = [op EXCEPT ![c] = o]
       /\ pc' = [pc EXCEPT ![c] = "enq"]
       /\ postRet' = postRet
  ELSE /\ UNCHANGED <<item, nextId, op>>
       /\ pc' = [pc EXCEPT ![c] = AfterPost(o)]
       /\ postRet' = IF o = "post"
                     THEN [postRet EXCEPT ![c] = [n |-> nCalls + 1, ret |-> TRUE,
                                                  mallocOk |-> FALSE, id |-> 0]]
                     ELSE postRet

\* thread_post up to the enqueue (thread.c:124-140): malloc of the item; when it
\* fails thread_post returns false, otherwise func and context are stored
thread_post(c, o, it, ok) ==
  IF ok
  THEN /\ item' = [item EXCEPT ![c] = it]
       /\ nextId' = nextId + 1
       /\ op' = [op EXCEPT ![c] = o]
       /\ pc' = [pc EXCEPT ![c] = "enq"]
       /\ postRet' = postRet
  ELSE /\ UNCHANGED <<item, nextId, op>>
       /\ pc' = [pc EXCEPT ![c] = AfterPost(o)]
       /\ postRet' = IF o = "post"
                     THEN [postRet EXCEPT ![c] = [n |-> nCalls + 1, ret |-> FALSE,
                                                  mallocOk |-> FALSE, id |-> 0]]
                     ELSE postRet

\* thread_post(thread, func, context) called by c with an opaque function of one
\* of the given kinds: it either touches nothing of the worker ("plain") or calls
\* thread_post on the same worker ("poster")
ThreadPost(c, kinds) ==
  /\ CanCall(c)
  /\ nCalls' = nCalls + 1
  /\ \E ok \in BOOLEAN, k \in kinds :
       /\ k = "poster" => nPosters < MaxPosters
       /\ nPosters' = IF k = "poster" THEN nPosters + 1 ELSE nPosters
       /\ thread_post(c, "post", [PlainItem(c) EXCEPT !.kind = k], ok)
  /\ UNCHANGED <<newVars, workerVars, queue, reactorVars, ready, unregSem, arg, noSem,
                 enqLog, execLog, freed, regCalled, unregRet, regEffected, detached,
                 reReg, stopEver, freeCalls>>

\* Variant of thread_post that gives up, freeing the item, when the queue is full
Post_Enqueue_AbortWhenFull(c) ==
  /\ pc[c] = "enq"
  /\ IF Len(queue) < WORK_QUEUE_CAPACITY
     THEN /\ queue' = Append(queue, item[c])
          /\ enqLog' = Append(enqLog, item[c].id)
     ELSE UNCHANGED <<queue, enqLog>>
  /\ item' = [item EXCEPT ![c] = NoItem]
  /\ op' = [op EXCEPT ![c] = "none"]
  /\ pc' = [pc EXCEPT ![c] = AfterPost(op[c])]
  /\ UNCHANGED <<nCalls, nPosters, newVars, workerVars, reactorVars, ready, unregSem, arg,
                 nextId, execLog, freed, postRet, noSem, regCalled, unregRet, regEffected,
                 detached, reReg, stopEver, freeCalls>>

\* Variant of thread_post that calls the function on the calling thread when the
\* queue is full
Post_Enqueue_InlineWhenFull(c) ==
  /\ pc[c] = "enq"
  /\ IF Len(queue) < WORK_QUEUE_CAPACITY
     THEN /\ queue' = Append(queue, item[c])
          /\ enqLog' = Append(enqLog, item[c].id)
          /\ UNCHANGED <<active, execLog>>
     ELSE /\ BeginItem(c, item[c])
          /\ UNCHANGED <<queue, enqLog>>
  /\ item' = [item EXCEPT ![c] = NoItem]
  /\ op' = [op EXCEPT ![c] = "none"]
  /\ pc' = [pc EXCEPT ![c] = AfterPost(op[c])]
  /\ postRet' = IF op[c] = "post"
                THEN [postRet EXCEPT ![c] = [n |-> nCalls, ret |-> TRUE,
                                             mallocOk |-> TRUE, id |-> item[c].id]]
                ELSE postRet
  /\ UNCHANGED <<nCalls, nPosters, newVars, tid, wPc, count, cur, reactorVars, ready, unregSem,
                 arg, nextId, freed, noSem, regCalled, unregRet, regEffected,
                 detached, reReg, stopEver, freeCalls>>

\* fixed_queue_enqueue(thread->work_queue, item), which blocks while the queue is
\* full; return true (thread.c:141-142)
Post_Enqueue(c) ==
  /\ pc[c] = "enq"
  /\ Len(queue) < WORK_QUEUE_CAPACITY
  /\ queue' = Append(queue, item[c])
  /\ enqLog' = Append(enqLog, item[c].id)
  /\ item' = [item EXCEPT ![c] = NoItem]
  /\ op' = [op EXCEPT ![c] = "none"]
  /\ pc' = [pc EXCEPT ![c] = AfterPost(op[c])]
  /\ postRet' = IF op[c] = "post"
                THEN [postRet EXCEPT ![c] = [n |-> nCalls, ret |-> TRUE,
                                             mallocOk |-> TRUE, id |-> item[c].id]]
                ELSE postRet
  /\ detached' = IF item[c].kind = "reg" THEN detached \ {item[c].src} ELSE detached
  /\ reReg' = CASE item[c].kind = "reg" ->
                     [d \in Callers |-> reReg[d] \/ (pc[d] = "unreg_wait"
                                                     /\ arg[d].src = item[c].src)]
                [] item[c].kind = "unreg" -> [reReg EXCEPT ![c] = FALSE]
                [] OTHER -> reReg
  /\ UNCHANGED <<nCalls, nPosters, newVars, workerVars, reactorVars, ready, unregSem, arg,
                 nextId, execLog, freed, noSem, regCalled, unregRet, regEffected,
                 stopEver, freeCalls>>

\* The function of a "poster" item, running on the worker, calls thread_post on
\* its own worker (the case of the comment thread.c:128-130)
Worker_Post ==
  /\ wPc \in {"read_cb", "drain_run"}
  /\ cur.kind = "poster"
  /\ pc[Worker] = "idle"
  /\ cur' = [cur EXCEPT !.kind = "posted"]
  /\ \E ok \in BOOLEAN : thread_post(Worker, "wpost", ChildItem, ok)
  /\ UNCHANGED <<nCalls, nPosters, newVars, tid, wPc, count, active, queue, reactorVars, ready,
                 unregSem, arg, noSem, enqLog, execLog, freed, regCalled, unregRet,
                 regEffected, detached, reReg, stopEver, freeCalls>>

\* Variant of thread_register that calls reactor_register on the calling thread
thread_register_Direct(c, s) ==
  /\ CanCall(c)
  /\ nCalls' = nCalls + 1
  /\ nPosters' = nPosters
  /\ registered' = registered \cup {s}
  /\ regEffected' = regEffected \cup {s}
  /\ regCalled' = [regCalled EXCEPT ![c] = @ \cup {s}]
  /\ UNCHANGED <<pc, op, item, newVars, workerVars, queue, stopReq, ready, unregSem,
                 arg, noSem, nextId, enqLog, execLog, freed, postRet, unregRet,
                 detached, reReg, stopEver, freeCalls>>

\* thread_register (thread.c:160-169): malloc of arg, not checked, so that a null
\* arg is written through, which ends the process; thread_post, whose result is
\* not looked at
thread_register(c, s) ==
  /\ CanCall(c)
  /\ nCalls' = nCalls + 1
  /\ nPosters' = nPosters
  /\ \E argOk \in BOOLEAN :
       IF argOk
       THEN /\ \E ok \in BOOLEAN : thread_post(c, "register", RegItem(c, s), ok)
            /\ regCalled' = [regCalled EXCEPT ![c] = @ \cup {s}]
            /\ wPc' = wPc
       ELSE /\ pc' = [d \in Threads |-> "crashed"]
            /\ wPc' = "crashed"
            /\ UNCHANGED <<item, nextId, op, postRet, regCalled>>
  /\ UNCHANGED <<newVars, tid, count, cur, active, queue, reactorVars, ready, unregSem,
                 arg, noSem,
                 enqLog, execLog, freed, unregRet, regEffected, detached,
                 reReg, stopEver, freeCalls>>

\* Variant of thread_unregister that goes on to post the request when it has no
\* semaphore
thread_unregister_NoReturn(c, s) ==
  /\ CanCall(c)
  /\ nCalls' = nCalls + 1
  /\ nPosters' = nPosters
  /\ \E semOk \in BOOLEAN :
       /\ unregSem' = IF semOk THEN [unregSem EXCEPT ![c] = 0] ELSE unregSem
       /\ noSem' = IF semOk THEN noSem ELSE [noSem EXCEPT ![c] = nCalls + 1]
       /\ \E ok \in BOOLEAN :
            /\ thread_post(c, "unregister", UnregItem(c, s), ok)
            /\ arg' = [arg EXCEPT ![c] = [src |-> s,
                                          id |-> IF ok THEN nextId + 1 ELSE 0]]
  /\ UNCHANGED <<newVars, workerVars, queue, reactorVars, ready,
                 enqLog, execLog, freed, regCalled, unregRet, regEffected, detached,
                 reReg, stopEver, freeCalls>>

\* thread_unregister up to the wait (thread.c:171-186): semaphore_new(0), return
\* when it fails; thread_post of the request, whose result is not looked at
thread_unregister(c, s) ==
  /\ CanCall(c)
  /\ nCalls' = nCalls + 1
  /\ nPosters' = nPosters
  /\ \E semOk \in BOOLEAN :
       IF semOk
       THEN /\ unregSem' = [unregSem EXCEPT ![c] = 0]
            /\ noSem' = noSem
            /\ \E ok \in BOOLEAN :
                 /\ thread_post(c, "unregister", UnregItem(c, s), ok)
                 /\ arg' = [arg EXCEPT ![c] = [src |-> s,
                                               id |-> IF ok THEN nextId + 1 ELSE 0]]
       ELSE /\ noSem' = [noSem EXCEPT ![c] = nCalls + 1]
            /\ UNCHANGED <<pc, item, nextId, op, postRet, unregSem, arg>>
  /\ UNCHANGED <<newVars, workerVars, queue, reactorVars, ready,
                 enqLog, execLog, freed, regCalled, unregRet, regEffected, detached,
                 reReg, stopEver, freeCalls>>

\* semaphore_wait(arg.unregistered_sem); semaphore_free; return (thread.c:187-189)
Unregister_Return(c) ==
  /\ pc[c] = "unreg_wait"
  /\ unregSem[c] > 0
  /\ unregSem' = [unregSem EXCEPT ![c] = -1]
  /\ pc' = [pc EXCEPT ![c] = "idle"]
  /\ unregRet' = unregRet \cup {arg[c].id}
  /\ detached' = IF reReg[c] THEN detached ELSE detached \cup {arg[c].src}
  /\ arg' = [arg EXCEPT ![c] = [src |-> "none", id |-> 0]]
  /\ UNCHANGED <<op, item, nCalls, nPosters, newVars, workerVars, queue, reactorVars, ready,
                 nextId, enqLog, execLog, freed, postRet, noSem, regCalled,
                 regEffected, reReg, stopEver, freeCalls>>

\* Variant of thread_stop that discards the queued items
thread_stop_Flush(c) ==
  /\ CanCall(c)
  /\ nCalls' = nCalls + 1
  /\ nPosters' = nPosters
  /\ stopReq' = TRUE
  /\ stopEver' = TRUE
  /\ queue' = <<>>
  /\ UNCHANGED <<pc, op, item, newVars, workerVars, registered, ready, unregSem,
                 arg, noSem, nextId, enqLog, execLog, freed, postRet, regCalled, unregRet,
                 regEffected, detached, reReg, freeCalls>>

\* thread_stop (thread.c:145-148): reactor_stop
thread_stop(c) ==
  /\ CanCall(c)
  /\ nCalls' = nCalls + 1
  /\ nPosters' = nPosters
  /\ stopReq' = TRUE
  /\ stopEver' = TRUE
  /\ UNCHANGED <<pc, op, item, newVars, workerVars, queue, registered, ready, unregSem,
                 arg, noSem, nextId, enqLog, execLog, freed, postRet, regCalled, unregRet,
                 regEffected, detached, reReg, freeCalls>>

\* Sequence of the ids of the items of a queue
RECURSIVE Ids(_)
Ids(q) == IF q = <<>> THEN <<>> ELSE <<Head(q).id>> \o Ids(Tail(q))

Range(f) == {f[i] : i \in DOMAIN f}

\* Variant of thread_free that joins the worker without requesting the stop
thread_free_NoStop ==
  /\ Valid
  /\ \A c \in Callers : pc[c] = "idle"
  /\ stopReq' = stopReq
  /\ pc' = [pc EXCEPT !["main"] = "free_join"]
  /\ freeCalls' = Append(freeCalls, [pending |-> Range(Ids(queue)), stopped |-> stopEver])
  /\ UNCHANGED <<op, item, nCalls, nPosters, newVars, workerVars, queue, registered, ready,
                 unregSem, arg, nextId, enqLog, execLog, freed, postRet, noSem,
                 regCalled, unregRet, regEffected, detached, reReg, stopEver>>

\* thread_free (thread.c:113-117), called by "main" when no other call is in
\* progress on the handle: thread_stop
thread_free ==
  /\ Valid
  /\ \A c \in Callers : pc[c] = "idle"
  /\ stopReq' = TRUE
  /\ pc' = [pc EXCEPT !["main"] = "free_join"]
  /\ freeCalls' = Append(freeCalls, [pending |-> Range(Ids(queue)), stopped |-> stopEver])
  /\ UNCHANGED <<op, item, nCalls, nPosters, newVars, workerVars, queue, registered, ready,
                 unregSem, arg, nextId, enqLog, execLog, freed, postRet, noSem,
                 regCalled, unregRet, regEffected, detached, reReg, stopEver>>

\* Variant of thread_free that does not join the worker
Free_Join_NoJoin ==
  /\ pc["main"] = "free_join"
  /\ pc' = [pc EXCEPT !["main"] = "free_release"]
  /\ UNCHANGED <<op, item, nCalls, nPosters, newVars, workerVars, queue, reactorVars, ready,
                 unregSem, arg, histVars>>

\* pthread_join(thread->pthread, NULL) (thread.c:118)
Free_Join ==
  /\ pc["main"] = "free_join"
  /\ wPc = "done"
  /\ pc' = [pc EXCEPT !["main"] = "free_release"]
  /\ UNCHANGED <<op, item, nCalls, nPosters, newVars, workerVars, queue, reactorVars, ready,
                 unregSem, arg, histVars>>

\* The item destructor of fixed_queue_free applied to the items of q in turn
RECURSIVE FreeAll(_)
FreeAll(q) == IF q = <<>> THEN <<>> ELSE <<<<Head(q).id, "queue_free">>>> \o FreeAll(Tail(q))

\* fixed_queue_free(thread->work_queue, free); reactor_free; free(thread)
\* (thread.c:119-121)
Free_Release ==
  /\ pc["main"] = "free_release"
  /\ freed' = freed \o FreeAll(queue)
  /\ queue' = <<>>
  /\ alloc' = alloc \ {"queue", "reactor", "thread"}
  /\ pc' = [pc EXCEPT !["main"] = "freed"]
  /\ UNCHANGED <<op, item, nCalls, nPosters, newResult, startSem, startError, workerVars,
                 reactorVars, ready, unregSem, arg, nextId, enqLog, execLog, postRet,
                 noSem, regCalled, unregRet, regEffected, detached, reReg, stopEver,
                 freeCalls>>

Next ==
  \/ New_Calloc \/ New_Reactor \/ New_Queue \/ New_Sem \/ New_Create \/ New_Wait
  \/ New_Error
  \/ Worker_Init \/ Worker_SignalStart \/ Worker_RegisterWQ
  \/ work_queue_read_cb \/ work_queue_read_cb_return
  \/ \E s \in Sources : Reactor_DispatchSource(s)
  \/ Reactor_SourceReturn \/ Reactor_Stop
  \/ Drain_Dequeue \/ Drain_Return
  \/ \E s \in Sources : MakeReady(s)
  \/ \E c \in Callers : ThreadPost(c, {"plain"})
  \/ \E c \in Callers : Post_Enqueue(c)
  \/ \E c \in Callers, s \in Sources : thread_register(c, s)
  \/ \E c \in Callers, s \in Sources : thread_unregister(c, s)
  \/ \E c \in Callers : Unregister_Return(c)
  \/ \E c \in Callers : thread_stop(c)
  \/ thread_free \/ Free_Join \/ Free_Release

Spec == Init /\ [][Next]_vars

\* The same program used by a single caller thread, "main", whose posted
\* functions may post to the thread that runs them, and which registers no file
\* descriptors with it
NextOwner ==
  \/ New_Calloc \/ New_Reactor \/ New_Queue \/ New_Sem \/ New_Create \/ New_Wait
  \/ New_Error
  \/ Worker_Init \/ Worker_SignalStart \/ Worker_RegisterWQ
  \/ work_queue_read_cb \/ work_queue_read_cb_return
  \/ Reactor_Stop
  \/ Drain_Dequeue \/ Drain_Return
  \/ ThreadPost("main", {"plain", "poster"})
  \/ \E c \in {"main", Worker} : Post_Enqueue(c)
  \/ Worker_Post
  \/ thread_stop("main")
  \/ thread_free \/ Free_Join \/ Free_Release

SpecOwner == Init /\ [][NextOwner]_vars

\* The steps of run_thread, of the callbacks it runs, and of a thread_post made
\* from one of them
WorkerNext ==
  \/ Worker_Init \/ Worker_SignalStart \/ Worker_RegisterWQ
  \/ work_queue_read_cb \/ work_queue_read_cb_return
  \/ Reactor_Stop
  \/ Drain_Dequeue \/ Drain_Return
  \/ Worker_Post \/ Post_Enqueue(Worker)

\* The steps of thread_free after the stop request: pthread_join and the release
FreeNext == Free_Join \/ Free_Release

\* SpecOwner with the worker thread, and the thread inside thread_free, scheduled
\* fairly: a thread that can take a step eventually takes one
FairSpecOwner == SpecOwner /\ WF_vars(WorkerNext) /\ WF_vars(FreeNext)

----------------------------------------------------------------------------
\* Properties

ExecIds == [i \in 1..Len(execLog) |-> execLog[i][1]]

IsPrefix(a, b) == Len(a) <= Len(b) /\ \A i \in 1..Len(a) : a[i] = b[i]

Executed(id) == \E i \in 1..Len(execLog) : execLog[i][1] = id

TimesExecuted(id) == Cardinality({i \in 1..Len(execLog) : execLog[i][1] = id})

C2_DrainOnFree ==
  (freeCalls # <<>> /\ wPc = "done") =>
    \A id \in freeCalls[1].pending :
      /\ Executed(id)
      /\ <<id, "queue_free">> \notin Range(freed)

\* C2 (amended): when thread_free is called on a worker on which thread_stop was
\* not called before, the N <= capacity items queued at that moment have all been
\* executed when the worker thread has terminated, and none is freed by the
\* teardown of the queue.
C2_DrainOnFreeNoEarlierStop ==
  (freeCalls # <<>> /\ ~freeCalls[1].stopped /\ wPc = "done") =>
    \A id \in freeCalls[1].pending :
      /\ Executed(id)
      /\ <<id, "queue_free">> \notin Range(freed)

\* thread_free found a full queue, thread_stop had not been called, and the
\* worker has terminated.
C2_Witness ==
  /\ freeCalls # <<>>
  /\ ~freeCalls[1].stopped
  /\ Cardinality(freeCalls[1].pending) = WORK_QUEUE_CAPACITY
  /\ wPc = "done"

\* C3: when thread_unregister has returned (it had its semaphore), its request
\* has been executed to the end on the worker thread; and from the return on,
\* as long as no register request for the source is enqueued after the
\* unregister request, the source is not in the reactor's table and no callback
\* of it is in execution.
C3_UnregisterDetaches ==
  /\ \A id \in unregRet : id # 0 /\ <<id, Worker>> \in Range(freed)
  /\ \A s \in detached :
       /\ s \notin registered
       /\ \A a \in active : ~(a[2] = "src" /\ a[3] = s)

\* The source was registered, its unregister call returned, the source is
\* readable again and the reactor is running.
C3_Witness ==
  /\ "s1" \in detached
  /\ "s1" \in regEffected
  /\ "s1" \in ready
  /\ wPc = "reactor"
  /\ ~stopReq

\* C4: when thread_new has returned and a thread was spawned, that thread has
\* stored its tid and passed the start signal, or it has recorded an error; when
\* thread_new has returned a handle, the tid is set and the worker is past the
\* start signal.
C4_StartHandshake ==
  /\ (newResult # "pending" /\ wPc # "none") =>
       \/ tid # 0 /\ wPc \notin {"init", "signal_start"}
       \/ startError # 0 /\ wPc = "failed"
  /\ newResult = "ok" =>
       tid # 0 /\ wPc \notin {"none", "init", "signal_start", "failed"}

\* thread_new has just returned the handle; the worker has not yet registered
\* the work queue.
C4_Witness == newResult = "ok" /\ pc["main"] = "idle" /\ wPc = "register_wq"

\* C5: thread_new ends with a handle to a running worker whose resources are
\* allocated, or with failure and nothing allocated and no thread running; it is
\* never left waiting for a start signal that no thread will give.
C5_NewTwoOutcomes ==
  /\ (newResult = "ok" /\ Valid) =>
       /\ {"thread", "reactor", "queue"} \subseteq alloc
       /\ "start_sem" \notin alloc
       /\ wPc \notin {"none", "failed"}
  /\ newResult = "fail" =>
       /\ alloc = {}
       /\ wPc \in {"none", "failed"}
  /\ ~(pc["main"] = "new_wait" /\ wPc = "none" /\ startSem = 0)

\* C6: at most one callback (function of a work item, or read_ready of a
\* registered source) is in execution at any time, and it is on the worker.
C6_Serialized ==
  /\ Cardinality(active) <= 1
  /\ \A a \in active : a[1] = Worker

\* The function of a work item is in execution while a registered source is
\* readable and another item is queued.
C6_Witness ==
  /\ \E a \in active : a[2] = "item"
  /\ "s1" \in registered /\ "s1" \in ready
  /\ Len(queue) > 0

\* C7: when the function of an item starts, every source the poster had called
\* thread_register for before that post has been registered with the reactor on
\* the worker.
C7_RegisterBeforePost ==
  \A a \in active : a[2] = "item" => cur.after \subseteq regEffected

\* C8: thread_free waits for the worker only after a stop request; the queue
\* and the reactor are released only after the worker has terminated, so the
\* worker is never at a place where it uses them once they are released; after
\* thread_free has returned no work item is executed, and the items that were
\* still queued were freed by the teardown of the queue without being run.
C8_FreeOrder ==
  /\ [](/\ pc["main"] = "free_join" =>
             stopReq \/ wPc \in {"drain", "drain_run", "done"}
        /\ pc["main"] \in {"free_release", "freed"} => wPc = "done"
        /\ (newResult = "ok" /\ ~({"queue", "reactor"} \subseteq alloc)) =>
             wPc = "done" /\ pc["main"] = "freed"
        /\ pc["main"] = "freed" =>
             /\ queue = <<>>
             /\ \A e \in Range(freed) : e[2] = "queue_free" => ~Executed(e[1]))
  /\ [][pc["main"] = "freed" =>
          execLog' = execLog /\ active' = active /\ freed' = freed]_vars

\* thread_free has returned and the teardown of the queue discarded an item.
C8_Witness ==
  /\ pc["main"] = "freed"
  /\ \E e \in Range(freed) : e[2] = "queue_free"

\* C9: the step in which thread_unregister gets no semaphore is the whole call:
\* the caller is back at its call site, nothing was allocated or enqueued, no
\* semaphore is waited for and the reactor's table is as it was.
C9_UnregisterNoSemaphore ==
  [][\A c \in Callers :
       (noSem'[c] # noSem[c]) =>
         /\ pc'[c] = "idle"
         /\ queue' = queue /\ enqLog' = enqLog
         /\ nextId' = nextId /\ item' = item
         /\ unregSem' = unregSem
         /\ registered' = registered]_vars

\* thread_unregister returned for lack of a semaphore and the source is still
\* registered.
C9_Witness ==
  \E c \in Callers : noSem[c] # 0 /\ pc[c] = "idle" /\ "s1" \in registered

\* C10: the step in which a thread_post returns: it returns true exactly when
\* malloc succeeded; when it returns false the queue is unchanged; when it
\* returns true exactly its item, wrapping the caller's function, was appended;
\* in neither case is a function called in that step.
C10_PostResult ==
  [][\A c \in Callers :
       (postRet'[c] # postRet[c]) =>
         /\ postRet'[c].ret = postRet'[c].mallocOk
         /\ ~postRet'[c].ret => queue' = queue /\ enqLog' = enqLog
         /\ postRet'[c].ret =>
              /\ Len(queue') = Len(queue) + 1
              /\ queue' = Append(queue, queue'[Len(queue')])
              /\ queue'[Len(queue')].id = postRet'[c].id
              /\ queue'[Len(queue')].kind = "plain"
              /\ queue'[Len(queue')].by = c
              /\ enqLog' = Append(enqLog, postRet'[c].id)
         /\ execLog' = execLog /\ active' = active]_vars

\* A thread_post has returned true and its item is queued, not yet executed.
C10_Witness ==
  \E c \in Callers :
    /\ postRet[c].ret
    /\ postRet[c].id \in Range(Ids(queue))
    /\ ~Executed(postRet[c].id)

\* C11: a step of thread_stop issues the stop request and nothing else: the
\* caller is back at its call site in the same step (it waited for nothing), the
\* worker is where it was, no work item or callback was started or finished, and
\* the work queue and the reactor's source table are as they were.
C11_StopOnlyRequests ==
  [][(\E c \in Callers : thread_stop(c)) =>
       /\ stopReq'
       /\ pc' = pc /\ wPc' = wPc /\ count' = count /\ cur' = cur
       /\ execLog' = execLog /\ active' = active /\ freed' = freed
       /\ queue' = queue /\ enqLog' = enqLog
       /\ registered' = registered]_vars

\* thread_stop was called while an item was queued and a source was registered,
\* and the reactor has not yet looked at the request.
C11_Witness ==
  /\ stopEver /\ stopReq /\ Valid
  /\ queue # <<>>
  /\ "s1" \in registered
  /\ wPc = "reactor"

\* C12: when the self-initialization of the spawned thread has failed, a
\* non-zero error is recorded; the start semaphore was signalled once (the signal
\* is pending while thread_new waits and consumed afterwards); the thread has
\* exited and stays so: the work queue was not registered with the reactor, no
\* reactor loop and no drain ran, nothing was executed; and thread_new does not
\* return a handle: once past the wait it is on the error path, which ends with
\* failure and everything released.
C12_InitFailure ==
  /\ [](wPc = "failed" =>
          /\ startError # 0
          /\ tid = 0
          /\ registered = {} /\ count = 0 /\ cur = NoItem
          /\ execLog = <<>> /\ active = {}
          /\ newResult # "ok"
          /\ \/ pc["main"] = "new_wait" /\ startSem = 1
             \/ pc["main"] = "new_error" /\ startSem = 0 /\ newResult = "pending"
             \/ pc["main"] = "returned_null" /\ startSem = 0 /\ newResult = "fail"
                  /\ alloc = {})
  /\ [][wPc = "failed" => wPc' = "failed"]_vars

\* The self-initialization failed and thread_new has returned failure.
C12_Witness == wPc = "failed" /\ pc["main"] = "returned_null" /\ newResult = "fail"

\* C13: every step that changes the reactor's source table is a step of the
\* worker thread and of no caller: either run_thread registering the work queue,
\* or the return of the function of a register or unregister item that is in
\* execution on the worker, which adds or removes that item's source.
C13_TableOnWorker ==
  [][registered' # registered =>
       /\ pc' = pc /\ nCalls' = nCalls /\ item' = item
       /\ wPc' # wPc
       /\ \/ wPc = "register_wq" /\ registered' = registered \cup {WQ}
          \/ /\ wPc \in {"read_cb", "drain_run"}
             /\ <<Worker, "item", cur.id>> \in active
             /\ \/ cur.kind = "reg" /\ registered' = registered \cup {cur.src}
                \/ cur.kind = "unreg" /\ registered' = registered \ {cur.src}]_vars

\* The work queue is registered, and a source was registered and then
\* unregistered by requests of a caller.
C13_Witness ==
  /\ WQ \in registered
  /\ "s1" \in regEffected
  /\ "s1" \notin registered
  /\ unregRet # {}

\* Number of work items the shutdown drain has started to execute
DrainExecuted == count + (IF wPc = "drain_run" THEN 1 ELSE 0)

\* C14: the shutdown drain executes at most WORK_QUEUE_CAPACITY work items.
C14_DrainAtMostCapacity == DrainExecuted <= WORK_QUEUE_CAPACITY

\* The worker is in fixed_queue_enqueue on its own full queue: the work item it
\* is executing has called thread_post and does not return
WorkerBlocked == pc[Worker] = "enq" /\ Len(queue) >= WORK_QUEUE_CAPACITY

\* C15: the shutdown drain executes a bounded number of items, at most
\* WORK_QUEUE_CAPACITY + 1, whatever is posted meanwhile; the only way out of the
\* drain is the exit of the thread; and the worker does not stay in the drain for
\* ever, unless the work item it is executing does not return.
C15_DrainTerminates ==
  /\ [](DrainExecuted <= WORK_QUEUE_CAPACITY + 1)
  /\ [][(wPc \in {"drain", "drain_run"}) =>
          (wPc' \in {"drain", "drain_run", "done"})]_vars
  /\ []<>(wPc \notin {"drain", "drain_run"} \/ WorkerBlocked)

\* The worker has left the drain because of the count, with an item in hand,
\* while items kept arriving.
C15_Witness == wPc = "done" /\ count > WORK_QUEUE_CAPACITY /\ cur # NoItem

TimesFreed(id) == Cardinality({i \in 1..Len(freed) : freed[i][1] = id})

\* C16: every item that was enqueued is still queued, or its function is in
\* execution, or it has been released; it is executed and released at most once;
\* the worker releases it only after executing it and the teardown of the queue
\* only if it was never executed.
C16_ReleasedExactlyOnce ==
  \A i \in 1..Len(enqLog) :
    LET id == enqLog[i] IN
      /\ TimesExecuted(id) <= 1
      /\ TimesFreed(id) <= 1
      /\ \/ id \in Range(Ids(queue))
         \/ \E a \in active : a[2] = "item" /\ a[3] = id
         \/ TimesFreed(id) = 1
      /\ <<id, Worker>> \in Range(freed) => Executed(id)
      /\ <<id, "queue_free">> \in Range(freed) => ~Executed(id)

\* Lifecycle state of the worker: 0 starting (up to the registration of the work
\* queue), 1 running (in the reactor loop or a callback it dispatched), 2
\* stopping (in the shutdown drain), 3 terminated (the thread has returned, or
\* the process has ended)
Phase ==
  CASE wPc \in {"none", "init", "signal_start", "register_wq"} -> 0
    [] wPc \in {"reactor", "read_cb", "src_cb"} -> 1
    [] wPc \in {"drain", "drain_run"} -> 2
    [] OTHER -> 3

\* C17: the lifecycle state never moves backwards: a worker that has left the
\* reactor loop on a stop request never enters it again, and a terminated
\* worker stays terminated and neither starts nor finishes a work item or a
\* callback, whatever the callers do.
C17_LifecycleMonotonic ==
  [][/\ Phase' >= Phase
     /\ Phase = 3 =>
          /\ execLog' = execLog /\ active' = active
          /\ \A i \in 1..Len(freed') : freed'[i][2] = Worker => i <= Len(freed)]_vars

\* The worker has gone through the reactor loop and a drain that executed an
\* item, has terminated, and an item posted afterwards is queued.
C17_Witness == wPc = "done" /\ count > 0 /\ queue # <<>> /\ Valid

\* C18: once the worker is in fixed_queue_enqueue on its own full queue, in a
\* thread_post made by the work item it is executing, it stays there: the queue
\* keeps its contents, nothing is dequeued or executed, the item in execution
\* does not return and the worker does not move.
C18_SelfPostDeadlock ==
  [][WorkerBlocked =>
       /\ WorkerBlocked'
       /\ queue' = queue
       /\ execLog' = execLog /\ active' = active /\ freed' = freed
       /\ wPc' = wPc /\ cur' = cur /\ count' = count]_vars

\* A work item executing on the worker has called thread_post and is in the
\* enqueue, and the queue is full.
C18_Witness ==
  /\ WorkerBlocked
  /\ <<Worker, "item", cur.id>> \in active
  /\ item[Worker].by = Worker

\* C19: a caller that waits in thread_unregister on a running worker waits for
\* a request that exists: its unregister item is queued or in execution on the
\* worker, or has been executed and has signalled the semaphore, so that under
\* fair scheduling of the worker the call returns.
C19_UnregisterReturns ==
  \A c \in Callers :
    (pc[c] = "unreg_wait" /\ Phase = 1) =>
      \/ unregSem[c] > 0
      \/ arg[c].id # 0 /\ arg[c].id \in Range(Ids(queue))
      \/ arg[c].id # 0 /\ <<Worker, "item", arg[c].id>> \in active

\* C20: the stop request is never lost: once made, by thread_stop or by
\* thread_free, also before the worker has registered the work queue or entered
\* the reactor loop, it stays pending until the reactor loop exits on it; the
\* only way out of thread_free is its return; and the caller does not stay inside
\* thread_free for ever, unless the work item the worker is executing does not
\* return.
C20_FreeReturns ==
  /\ [][stopReq /\ ~stopReq' => wPc = "reactor" /\ wPc' = "drain"]_vars
  /\ [][(pc["main"] \in {"free_join", "free_release"}) =>
          (pc'["main"] \in {"free_join", "free_release", "freed"})]_vars
  /\ []<>(pc["main"] \notin {"free_join", "free_release"} \/ WorkerBlocked)

\* thread_free was called right after thread_new returned: it has requested the
\* stop and waits in the join while the worker has not yet registered the work
\* queue.
C20_Witness == pc["main"] = "free_join" /\ stopReq /\ wPc = "register_wq"

====
